---- MODULE Spec2Model ----
(***************************************************************************)
(* Model of notebook_lib/validators.py (df_fingerprint,                    *)
(* make_df_validator_nospoilers, check_process_rules) and of the part of   *)
(* notebook_lib/sql_runner.py that calls a validator and shows its verdict *)
(* (run_query, show_validation).                                           *)
(*                                                                         *)
(* Text is a sequence of one-character strings, so that splitting,         *)
(* lowercasing, substring search, ordering and CSV quoting are computed     *)
(* character by character, as Python computes them.                        *)
(***************************************************************************)
EXTENDS Integers, Sequences, FiniteSets, TLC

(***************************************************************************)
(* Characters and Python's str operations                                  *)
(***************************************************************************)

\* The printable ASCII characters in code-point order (32..126); code point
\* 96 is held by a placeholder that no text of the model contains.
Printable ==
  <<
    " ", "!", "\"", "#", "$", "%", "&", "'", "(", ")", "*", "+", ",", "-", ".", "/",
    "0", "1", "2", "3", "4", "5", "6", "7", "8", "9", ":", ";", "<", "=", ">", "?",
    "@", "A", "B", "C", "D", "E", "F", "G", "H", "I", "J", "K", "L", "M", "N", "O",
    "P", "Q", "R", "S", "T", "U", "V", "W", "X", "Y", "Z", "[", "\\", "]", "^", "_",
    "(grave)", "a", "b", "c", "d", "e", "f", "g", "h", "i", "j", "k", "l", "m", "n", "o",
    "p", "q", "r", "s", "t", "u", "v", "w", "x", "y", "z", "{", "|", "}", "~"
  >>

\* The characters of the model: tab, newline and printable ASCII.
CharSet == {"\t", "\n"} \cup {Printable[i] : i \in 1..Len(Printable)}

\* Code point of a character (Python's ord), which orders strings.
ord ==
  [c \in CharSet |->
     IF c = "\t" THEN 9
     ELSE IF c = "\n" THEN 10
     ELSE 31 + (CHOOSE i \in 1..Len(Printable) : Printable[i] = c)]

\* chr: the character of a printable code point.
chr(n) == Printable[n - 31]

\* str.isspace for the characters of the model (str.split() separators).
isspace(c) == c \in {" ", "\t", "\n"}

\* str.lower on one character: A..Z (65..90) map to a..z, the rest is kept.
lower_char(c) == IF ord[c] >= 65 /\ ord[c] <= 90 THEN chr(ord[c] + 32) ELSE c

\* str.lower.
lower(s) == [i \in 1..Len(s) |-> lower_char(s[i])]

RECURSIVE split_from(_, _, _, _)
\* str.split() with no argument: the maximal runs of non-whitespace
\* characters, in order (cur is the word being read, acc the words so far).
split_from(s, i, cur, acc) ==
  IF i > Len(s)
  THEN IF cur = <<>> THEN acc ELSE Append(acc, cur)
  ELSE IF isspace(s[i])
       THEN split_from(s, i + 1, <<>>, IF cur = <<>> THEN acc ELSE Append(acc, cur))
       ELSE split_from(s, i + 1, Append(cur, s[i]), acc)

\* str.split().
split(s) == split_from(s, 1, <<>>, <<>>)

RECURSIVE join(_, _)
\* sep.join(parts).
join(sep, parts) ==
  IF parts = <<>> THEN <<>>
  ELSE IF Len(parts) = 1 THEN parts[1]
  ELSE parts[1] \o sep \o join(sep, Tail(parts))

\* " ".join(s.split()): whitespace runs collapsed, ends trimmed.
collapse_ws(s) == join(<<" ">>, split(s))

\* Python's `sub in s` for strings.
contains(s, sub) ==
  \E i \in 0..(Len(s) - Len(sub)) : SubSeq(s, i + 1, i + Len(sub)) = sub

RECURSIVE str_lt(_, _)
\* Python's s < t for strings: lexicographic by code point.
str_lt(s, t) ==
  IF t = <<>> THEN FALSE
  ELSE IF s = <<>> THEN TRUE
  ELSE IF s[1] # t[1] THEN ord[s[1]] < ord[t[1]]
  ELSE str_lt(Tail(s), Tail(t))

RECURSIVE digits(_)
\* The decimal digits of a natural number.
digits(n) ==
  IF n < 10 THEN <<chr(48 + n)>>
  ELSE Append(digits(n \div 10), chr(48 + (n % 10)))

(***************************************************************************)
(* Cell values of a result table                                           *)
(***************************************************************************)

\* A missing value: pd.isna(v) holds for None, float nan and pd.NaT.
NullCell(kind) == [t |-> "null", na |-> kind]

\* A Python int.
IntCell(i) == [t |-> "int", i |-> i]

\* A Python float, by the decimal expansion of its exact binary value:
\* mag is the magnitude truncated to four fractional digits, in units of
\* 1/10000; sticky says that nonzero digits follow; neg is the sign bit.
FloatCell(neg, mag, sticky) == [t |-> "float", neg |-> neg, mag |-> mag, sticky |-> sticky]

\* A Python bool.
BoolCell(b) == [t |-> "bool", b |-> b]

\* A Python str.
StrCell(s) == [t |-> "str", s |-> s]

\* float(v) for an int v: exact for the integers of the model.
float_of_int(i) == FloatCell(i < 0, (IF i < 0 THEN -i ELSE i) * 10000, FALSE)

\* f"{x:.2f}": the exact value correctly rounded to two fractional digits
\* (ties to even); the sign is printed whenever the sign bit is set, also
\* when the rounded magnitude is zero.
format_2f(x) ==
  LET q  == x.mag \div 100
      r  == x.mag % 100
      up == r > 50 \/ (r = 50 /\ (x.sticky \/ q % 2 = 1))
      c  == IF up THEN q + 1 ELSE q
  IN  (IF x.neg THEN <<"-">> ELSE <<>>)
        \o digits(c \div 100) \o <<".">>
        \o <<chr(48 + ((c % 100) \div 10)), chr(48 + (c % 10))>>

\* str(v) for a bool or a str.
str(v) ==
  IF v.t = "bool" THEN (IF v.b THEN <<"T", "r", "u", "e">> ELSE <<"F", "a", "l", "s", "e">>)
  ELSE v.s

\* A norm that takes None alone for a missing value (v is None), so that
\* a NaN or NaT is formatted as a float or as text.
norm_none_only(v, normalize_whitespace, na_token) ==
  IF v.t = "null" /\ v.na = "None" THEN na_token
  ELSE IF v.t = "null" /\ v.na = "nan" THEN <<"n", "a", "n">>
  ELSE IF v.t = "null" THEN <<"N", "a", "T">>
  ELSE IF v.t = "float" THEN format_2f(v)
  ELSE IF v.t = "int" THEN format_2f(float_of_int(v.i))
  ELSE IF normalize_whitespace THEN collapse_ws(str(v))
  ELSE str(v)

\* A norm that leaves the whitespace of a text as it is.
norm_keep_whitespace(v, normalize_whitespace, na_token) ==
  IF v.t = "null" THEN na_token
  ELSE IF v.t = "float" THEN format_2f(v)
  ELSE IF v.t = "int" THEN format_2f(float_of_int(v.i))
  ELSE str(v)

\* df_fingerprint.norm: the normalized string of one cell.
norm(v, normalize_whitespace, na_token) ==
  IF v.t = "null" THEN na_token
  ELSE IF v.t = "float" THEN format_2f(v)
  ELSE IF v.t = "int" THEN format_2f(float_of_int(v.i))
  ELSE IF normalize_whitespace THEN collapse_ws(str(v))
  ELSE str(v)

(***************************************************************************)
(* Result tables (pandas DataFrame): column names in order, rows in order, *)
(* each row the sequence of its cells in column order                      *)
(***************************************************************************)

\* A DataFrame with a default RangeIndex.
DataFrame(columns, rows) == [columns |-> columns, rows |-> rows]

\* Position of a column name in a list of column names.
column_index(columns, name) == CHOOSE j \in 1..Len(columns) : columns[j] = name

RECURSIVE insert_sorted(_, _)
\* One step of sorted(): name placed before the first greater element.
insert_sorted(names, name) ==
  IF names = <<>> THEN <<name>>
  ELSE IF str_lt(name, names[1]) THEN <<name>> \o names
  ELSE <<names[1]>> \o insert_sorted(Tail(names), name)

RECURSIVE sorted(_)
\* sorted(x.columns): the names in ascending str order (stable).
sorted(names) ==
  IF names = <<>> THEN <<>>
  ELSE insert_sorted(sorted(SubSeq(names, 1, Len(names) - 1)), names[Len(names)])

\* The columns renamed and the cells left where they are
\* (x.columns = new_columns).
reindex_relabel(x, new_columns) == DataFrame(new_columns, x.rows)

\* x.reindex(new_columns, axis=1): the same rows with the columns reordered.
reindex(x, new_columns) ==
  DataFrame(new_columns,
            [r \in 1..Len(x.rows) |->
               [j \in 1..Len(new_columns) |->
                  x.rows[r][column_index(x.columns, new_columns[j])]]])

\* x.map(norm): norm applied to every cell.
map_norm(x, normalize_whitespace, na_token) ==
  DataFrame(x.columns,
            [r \in 1..Len(x.rows) |->
               [j \in 1..Len(x.columns) |->
                  norm(x.rows[r][j], normalize_whitespace, na_token)]])

\* A sort keyed on the first column alone (by=x.columns[0]).
row_lt_first_column(a, b) == a # <<>> /\ b # <<>> /\ str_lt(a[1], b[1])

RECURSIVE row_lt(_, _)
\* Order of two rows of strings under by=list(x.columns): by the first
\* column in which they differ.
row_lt(a, b) ==
  IF a = <<>> \/ b = <<>> THEN FALSE
  ELSE IF a[1] # b[1] THEN str_lt(a[1], b[1])
  ELSE row_lt(Tail(a), Tail(b))

RECURSIVE merge(_, _)
\* Merge of two sorted runs; on a tie the element of the left run is first.
merge(left, right) ==
  IF left = <<>> THEN right
  ELSE IF right = <<>> THEN left
  ELSE IF row_lt(right[1], left[1]) THEN <<right[1]>> \o merge(left, Tail(right))
  ELSE <<left[1]>> \o merge(Tail(left), right)

RECURSIVE mergesort(_)
\* kind="mergesort": a stable sort of the rows.
mergesort(rows) ==
  IF Len(rows) <= 1 THEN rows
  ELSE LET mid == Len(rows) \div 2
       IN  merge(mergesort(SubSeq(rows, 1, mid)),
                 mergesort(SubSeq(rows, mid + 1, Len(rows))))

\* x.sort_values(by=list(x.columns), kind="mergesort").reset_index(drop=True)
sort_values(x) == DataFrame(x.columns, mergesort(x.rows))

\* csv.writer with QUOTE_MINIMAL: a field holding the delimiter, the quote
\* character or a line break is quoted, its quote characters doubled.
csv_field(s) ==
  IF \E i \in 1..Len(s) : s[i] \in {",", "\"", "\n"}
  THEN <<"\"">>
         \o join(<<>>, [i \in 1..Len(s) |-> IF s[i] = "\"" THEN <<"\"", "\"">> ELSE <<s[i]>>])
         \o <<"\"">>
  ELSE s

\* csv.writer.writerow: fields joined by commas and ended by a newline; a
\* row of one empty field is written as a pair of quotes.
csv_row(fields) ==
  (IF Len(fields) = 1 /\ fields[1] = <<>> THEN <<"\"", "\"">>
   ELSE join(<<",">>, [j \in 1..Len(fields) |-> csv_field(fields[j])]))
    \o <<"\n">>

\* x.to_csv(index=False) of a table of strings: the header, then the rows.
to_csv(x) ==
  csv_row(x.columns) \o join(<<>>, [r \in 1..Len(x.rows) |-> csv_row(x.rows[r])])

\* hashlib.sha256(payload.encode("utf-8")).hexdigest(): modelled as an
\* injective tag of the payload (no collisions), so that two digests are
\* equal exactly when the hashed texts are.
sha256_hexdigest(payload) == [sha256 |-> payload]

\* The table that df_fingerprint serializes: columns reordered, cells
\* normalized, rows sorted.
canonical(df, sort_rows, sort_cols, normalize_whitespace, na_token) ==
  LET x1 == IF sort_cols THEN reindex(df, sorted(df.columns)) ELSE df
      x2 == map_norm(x1, normalize_whitespace, na_token)
  IN  IF sort_rows /\ Len(x2.columns) > 0 /\ Len(x2.rows) > 0
      THEN sort_values(x2)
      ELSE x2

\* A df_fingerprint that hashes the column names of the table as given
\* (its metadata) together with the payload.
df_fingerprint_hashing_meta(df, sort_rows, sort_cols, normalize_whitespace, na_token) ==
  LET x       == canonical(df, sort_rows, sort_cols, normalize_whitespace, na_token)
      payload == to_csv(x) \o csv_row(df.columns)
  IN  [h |-> sha256_hexdigest(payload),
       meta |-> [rows |-> Len(df.rows), cols |-> df.columns]]

\* df_fingerprint: the pair (h, meta), as a record.
df_fingerprint(df, sort_rows, sort_cols, normalize_whitespace, na_token) ==
  LET x       == canonical(df, sort_rows, sort_cols, normalize_whitespace, na_token)
      payload == to_csv(x)
      h       == sha256_hexdigest(payload)
      meta    == [rows |-> Len(df.rows), cols |-> df.columns]
  IN  [h |-> h, meta |-> meta]

\* None, and the value of a variable that holds nothing (yet).
NONE == [none |-> TRUE]

\* The default of na_token: "<NA>".
NA_TOKEN == <<"<", "N", "A", ">">>

(***************************************************************************)
(* The tables a call allocates                                             *)
(***************************************************************************)

\* A new table object: df.copy(), reindex, map, sort_values and reset_index
\* each return a new DataFrame and leave the one they are called on as it
\* is.
alloc(objects, table) == Append(objects, table)

\* df_fingerprint working on the caller's table itself: no copy, the
\* columns reordered, the cells normalized and the rows sorted in place.
df_fingerprint_in_place(objects, df, sort_rows, sort_cols, normalize_whitespace, na_token) ==
  LET o1      == [objects EXCEPT ![df] = canonical(objects[df], sort_rows, sort_cols,
                                                   normalize_whitespace, na_token)]
      payload == to_csv(o1[df])
  IN  [h    |-> sha256_hexdigest(payload),
       meta |-> [rows |-> Len(o1[df].rows), cols |-> o1[df].columns],
       heap |-> o1]

\* df_fingerprint on the table objects[df], with the objects it leaves
\* behind: x is bound in turn to the copy, the reindexed, the normalized
\* and the sorted (or re-indexed) table; meta is read from df at the end.
df_fingerprint_objects(objects, df, sort_rows, sort_cols, normalize_whitespace, na_token) ==
  LET o1      == alloc(objects, objects[df])
      x1      == Len(o1)
      o2      == IF sort_cols
                 THEN alloc(o1, reindex(o1[x1], sorted(o1[x1].columns)))
                 ELSE o1
      x2      == Len(o2)
      o3      == alloc(o2, map_norm(o2[x2], normalize_whitespace, na_token))
      x3      == Len(o3)
      o4      == alloc(o3, IF sort_rows /\ Len(o3[x3].columns) > 0 /\ Len(o3[x3].rows) > 0
                           THEN sort_values(o3[x3])
                           ELSE o3[x3])
      x4      == Len(o4)
      payload == to_csv(o4[x4])
  IN  [h    |-> sha256_hexdigest(payload),
       meta |-> [rows |-> Len(o4[df].rows), cols |-> o4[df].columns],
       heap |-> o4]

(***************************************************************************)
(* make_df_validator_nospoilers                                            *)
(***************************************************************************)

\* A message of a verdict: a fixed text, followed by formatted detail (the
\* empty text where the message has none).
Message(text, detail) == [text |-> text, detail |-> detail]

MSG_WRONG_COLUMNS == Message("Wrong number of columns! Make corrections and try again.", <<>>)
MSG_WRONG_ROWS == Message("Wrong number of rows! Make corrections and try again.", <<>>)
MSG_NOT_CORRECT == Message("The result is not correct yet. Make corrections and try again.", <<>>)
\* The text of the source has a dash and a check mark, left out here.
MSG_NICE == Message("Nice - your output matches the expected result", <<>>)

\* f"Missing column(s): ..." with the missing names in sorted order.
msg_missing_columns_sorted(missing) ==
  Message("Missing column(s): ", join(<<",", " ">>, sorted(missing)))

\* f"Missing column(s): {', '.join(missing)}"
msg_missing_columns(missing) == Message("Missing column(s): ", join(<<",", " ">>, missing))

\* An int | None argument that is set.
Some(n) == [some |-> n]

\* `c in df.columns`.
has_column(df, c) == \E j \in 1..Len(df.columns) : df.columns[j] = c

\* set(columns).
column_set(columns) == {columns[j] : j \in 1..Len(columns)}

\* [c for c in required_cols if c not in df.columns]
missing_columns(required_cols, df) ==
  SelectSeq(required_cols, LAMBDA c : ~has_column(df, c))

\* A validator that fingerprints with the defaults of df_fingerprint
\* instead of its configured sort options.
got_hash_default_options(cfg, df) == df_fingerprint(df, TRUE, FALSE, TRUE, NA_TOKEN).h

\* got_hash, _ = df_fingerprint(df, sort_rows=sort_rows, sort_cols=sort_cols)
got_hash(cfg, df) == df_fingerprint(df, cfg.sort_rows, cfg.sort_cols, TRUE, NA_TOKEN).h

\* A validator whose exact-column check compares the column lists in
\* order (list(df.columns) != list(required_cols)).
validator_exact_ordered(cfg, sql, df, conn) ==
  LET missing  == missing_columns(cfg.required_cols, df)
      checks1  == IF cfg.required_cols # <<>> THEN <<"required_cols">> ELSE <<>>
      checks2  == IF cfg.exact_cols /\ cfg.required_cols # <<>>
                  THEN Append(checks1, "exact_cols") ELSE checks1
      checks3  == IF cfg.expected_rows # NONE
                  THEN Append(checks2, "expected_rows") ELSE checks2
      checks4  == Append(checks3, "expected_hash")
  IN  IF cfg.required_cols # <<>> /\ missing # <<>>
      THEN [passed |-> FALSE,
            messages |-> IF cfg.hide_missing_cols
                         THEN <<MSG_WRONG_COLUMNS>>
                         ELSE <<msg_missing_columns(missing)>>,
            checks |-> checks1]
      ELSE IF cfg.exact_cols /\ cfg.required_cols # <<>> /\ df.columns # cfg.required_cols
      THEN [passed |-> FALSE, messages |-> <<MSG_WRONG_COLUMNS>>, checks |-> checks2]
      ELSE IF cfg.expected_rows # NONE /\ Some(Len(df.rows)) # cfg.expected_rows
      THEN [passed |-> FALSE, messages |-> <<MSG_WRONG_ROWS>>, checks |-> checks3]
      ELSE IF got_hash(cfg, df) # cfg.expected_hash
      THEN [passed |-> FALSE, messages |-> <<MSG_NOT_CORRECT>>, checks |-> checks4]
      ELSE [passed |-> TRUE, messages |-> <<MSG_NICE>>, checks |-> checks4]

\* A validator that tells the expected and the actual row count unless
\* hide_row_count is set.
validator_row_count_shown(cfg, sql, df, conn) ==
  LET missing  == missing_columns(cfg.required_cols, df)
      checks1  == IF cfg.required_cols # <<>> THEN <<"required_cols">> ELSE <<>>
      checks2  == IF cfg.exact_cols /\ cfg.required_cols # <<>>
                  THEN Append(checks1, "exact_cols") ELSE checks1
      checks3  == IF cfg.expected_rows # NONE
                  THEN Append(checks2, "expected_rows") ELSE checks2
      checks4  == Append(checks3, "expected_hash")
  IN  IF cfg.required_cols # <<>> /\ missing # <<>>
      THEN [passed |-> FALSE,
            messages |-> IF cfg.hide_missing_cols
                         THEN <<MSG_WRONG_COLUMNS>>
                         ELSE <<msg_missing_columns(missing)>>,
            checks |-> checks1]
      ELSE IF cfg.exact_cols /\ cfg.required_cols # <<>>
                /\ column_set(df.columns) # column_set(cfg.required_cols)
      THEN [passed |-> FALSE, messages |-> <<MSG_WRONG_COLUMNS>>, checks |-> checks2]
      ELSE IF cfg.expected_rows # NONE /\ Some(Len(df.rows)) # cfg.expected_rows
      THEN [passed |-> FALSE,
            messages |-> IF cfg.hide_row_count
                         THEN <<MSG_WRONG_ROWS>>
                         ELSE <<Message("Expected rows / got rows: ",
                                        digits(cfg.expected_rows.some) \o <<"/">>
                                          \o digits(Len(df.rows)))>>,
            checks |-> checks3]
      ELSE IF got_hash(cfg, df) # cfg.expected_hash
      THEN [passed |-> FALSE, messages |-> <<MSG_NOT_CORRECT>>, checks |-> checks4]
      ELSE [passed |-> TRUE, messages |-> <<MSG_NICE>>, checks |-> checks4]

\* A validator that makes the row-count check first and the column checks
\* after it.
validator_rows_first(cfg, sql, df, conn) ==
  LET missing  == missing_columns(cfg.required_cols, df)
      checks1  == IF cfg.expected_rows # NONE THEN <<"expected_rows">> ELSE <<>>
      checks2  == IF cfg.required_cols # <<>>
                  THEN Append(checks1, "required_cols") ELSE checks1
      checks3  == IF cfg.exact_cols /\ cfg.required_cols # <<>>
                  THEN Append(checks2, "exact_cols") ELSE checks2
      checks4  == Append(checks3, "expected_hash")
  IN  IF cfg.expected_rows # NONE /\ Some(Len(df.rows)) # cfg.expected_rows
      THEN [passed |-> FALSE, messages |-> <<MSG_WRONG_ROWS>>, checks |-> checks1]
      ELSE IF cfg.required_cols # <<>> /\ missing # <<>>
      THEN [passed |-> FALSE,
            messages |-> IF cfg.hide_missing_cols
                         THEN <<MSG_WRONG_COLUMNS>>
                         ELSE <<msg_missing_columns(missing)>>,
            checks |-> checks2]
      ELSE IF cfg.exact_cols /\ cfg.required_cols # <<>>
                /\ column_set(df.columns) # column_set(cfg.required_cols)
      THEN [passed |-> FALSE, messages |-> <<MSG_WRONG_COLUMNS>>, checks |-> checks3]
      ELSE IF got_hash(cfg, df) # cfg.expected_hash
      THEN [passed |-> FALSE, messages |-> <<MSG_NOT_CORRECT>>, checks |-> checks4]
      ELSE [passed |-> TRUE, messages |-> <<MSG_NICE>>, checks |-> checks4]

\* The closure returned by make_df_validator_nospoilers(expected_hash, ...),
\* applied: validator(sql, df, conn) under the captured configuration cfg.
\* Returns the verdict (passed, messages) and, as `checks`, the checks whose
\* condition the call evaluated, in the order it evaluated them.
validator(cfg, sql, df, conn) ==
  LET missing  == missing_columns(cfg.required_cols, df)
      checks1  == IF cfg.required_cols # <<>> THEN <<"required_cols">> ELSE <<>>
      checks2  == IF cfg.exact_cols /\ cfg.required_cols # <<>>
                  THEN Append(checks1, "exact_cols") ELSE checks1
      checks3  == IF cfg.expected_rows # NONE
                  THEN Append(checks2, "expected_rows") ELSE checks2
      checks4  == Append(checks3, "expected_hash")
  IN  IF cfg.required_cols # <<>> /\ missing # <<>>
      THEN [passed |-> FALSE,
            messages |-> IF cfg.hide_missing_cols
                         THEN <<MSG_WRONG_COLUMNS>>
                         ELSE <<msg_missing_columns(missing)>>,
            checks |-> checks1]
      ELSE IF cfg.exact_cols /\ cfg.required_cols # <<>>
                /\ column_set(df.columns) # column_set(cfg.required_cols)
      THEN [passed |-> FALSE, messages |-> <<MSG_WRONG_COLUMNS>>, checks |-> checks2]
      ELSE IF cfg.expected_rows # NONE /\ Some(Len(df.rows)) # cfg.expected_rows
      THEN [passed |-> FALSE,
            messages |-> IF cfg.hide_row_count
                         THEN <<MSG_WRONG_ROWS>>
                         ELSE <<MSG_WRONG_ROWS>>,
            checks |-> checks3]
      ELSE IF got_hash(cfg, df) # cfg.expected_hash
      THEN [passed |-> FALSE, messages |-> <<MSG_NOT_CORRECT>>, checks |-> checks4]
      ELSE [passed |-> TRUE, messages |-> <<MSG_NICE>>, checks |-> checks4]

\* The objects a validator call leaves behind: the call reads df.columns
\* and len(df), and hands df to df_fingerprint when no earlier check
\* returned (checks lists the checks the call evaluated).
validator_objects(objects, df, cfg, checks) ==
  IF checks[Len(checks)] = "expected_hash"
  THEN df_fingerprint_objects(objects, df, cfg.sort_rows, cfg.sort_cols, TRUE, NA_TOKEN).heap
  ELSE objects

(***************************************************************************)
(* sql_runner: the validation banner                                       *)
(***************************************************************************)

\* SUCCESS_MESSAGES (the emoji that start each text are left out).
SUCCESS_MESSAGES ==
  << "Nice!",
     "Great job",
     "Good job",
     "Keep up the good work!",
     "I think you're getting the hang of this!",
     "Well played",
     "Fantastic! Let's keep it going",
     "Nicely done" >>

\* A show_validation that shows the first message of the verdict as the
\* title of a passing banner.
show_validation_verdict_title(ok, problems, choice) ==
  IF ok
  THEN [cls |-> "ok", title |-> problems[1].text, message |-> <<>>]
  ELSE [cls |-> "err", title |-> "Not correct yet", message |-> problems]

\* show_validation(ok, problems) with random.choice having returned
\* SUCCESS_MESSAGES[choice]: the banner shown. The message of a failing
\* verdict is " ".join(problems), kept as the list of the joined problems.
show_validation(ok, problems, choice) ==
  IF ok
  THEN [cls |-> "ok", title |-> SUCCESS_MESSAGES[choice], message |-> <<>>]
  ELSE [cls |-> "err", title |-> "Not correct yet", message |-> problems]


(***************************************************************************)
(* check_process_rules                                                     *)
(***************************************************************************)

\* The tokens has() knows; any other token raises KeyError.
HasTokens ==
  {"where", "join", "group_by", "having", "distinct", "order_by", "limit", "subquery"}

\* The texts to look for with the bare word for join.
needle_bare_join(name) ==
  CASE
       name = "where" -> <<"w", "h", "e", "r", "e">>
    [] name = "join" -> <<"j", "o", "i", "n">>
    [] name = "group_by" -> <<"g", "r", "o", "u", "p", " ", "b", "y">>
    [] name = "having" -> <<"h", "a", "v", "i", "n", "g">>
    [] name = "distinct" -> <<"d", "i", "s", "t", "i", "n", "c", "t">>
    [] name = "order_by" -> <<"o", "r", "d", "e", "r", " ", "b", "y">>
    [] name = "limit" -> <<"l", "i", "m", "i", "t">>
    [] name = "subquery" -> <<"(", "s", "e", "l", "e", "c", "t">>

\* The text has(token) looks for in s.
needle(name) ==
  CASE
       name = "where" -> <<"w", "h", "e", "r", "e">>
    [] name = "join" -> <<" ", "j", "o", "i", "n", " ">>
    [] name = "group_by" -> <<"g", "r", "o", "u", "p", " ", "b", "y">>
    [] name = "having" -> <<"h", "a", "v", "i", "n", "g">>
    [] name = "distinct" -> <<"d", "i", "s", "t", "i", "n", "c", "t">>
    [] name = "order_by" -> <<"o", "r", "d", "e", "r", " ", "b", "y">>
    [] name = "limit" -> <<"l", "i", "m", "i", "t">>
    [] name = "subquery" -> <<"(", "s", "e", "l", "e", "c", "t">>

\* check_process_rules.has for a token it knows.
has(token, s) == contains(s, needle(token))

\* check_process_rules.messages.
messages ==
  [name \in {"where", "join", "group_by", "having", "distinct", "order_by", "limit",
             "subquery"} |->
     CASE name = "where"    -> Message("Use a WHERE clause.", <<>>)
       [] name = "join"     -> Message("Use a JOIN in this exercise.", <<>>)
       [] name = "group_by" -> Message("Use GROUP BY in this exercise.", <<>>)
       [] name = "having"   -> Message("Use HAVING in this exercise.", <<>>)
       [] name = "distinct" -> Message("Use DISTINCT in this exercise.", <<>>)
       [] name = "order_by" -> Message("Don't use ORDER BY for this exercise.", <<>>)
       [] name = "limit"    -> Message("Don't use LIMIT for this exercise.", <<>>)
       [] name = "subquery" -> Message("Don't use subqueries for this exercise.", <<>>)]

\* set(names) of a list of names.
name_set(names) == {names[i] : i \in 1..Len(names)}

\* A check_process_rules without the test for unknown names.
unknown_rules_unchecked(require, forbid) == {}

\* The elements of `unknown`: the names of set(require) | set(forbid) that
\* are not keys of messages.
unknown_rules(require, forbid) ==
  {t \in name_set(require) \cup name_set(forbid) : t \notin DOMAIN messages}

\* The lists that hold each element of a set once: the orders in which
\* iterating a Python set of strings can yield it.
orderings(S) ==
  {o \in [1..Cardinality(S) -> S] : \A t \in S : \E i \in 1..Cardinality(S) : o[i] = t}

RECURSIVE scan(_, _, _, _)
\* `for t in tokens: if has(t) != want: return False, [messages[t]]`.
\* probes lists the tokens has() was called with so far. The outcome is the
\* token the loop returned on, a KeyError raised by has(), or the loop
\* running to its end.
scan(tokens, s, want, probes) ==
  IF tokens = <<>> THEN [kind |-> "end", probes |-> probes]
  ELSE IF tokens[1] \notin HasTokens
  THEN [kind |-> "raise", probes |-> Append(probes, tokens[1])]
  ELSE IF has(tokens[1], s) # want
  THEN [kind |-> "return", token |-> tokens[1], probes |-> Append(probes, tokens[1])]
  ELSE scan(Tail(tokens), s, want, Append(probes, tokens[1]))

\* A check_process_rules that walks forbid before require.
check_process_rules_forbid_first(sql, require, forbid, unknown) ==
  LET s  == collapse_ws(lower(sql))
      r1 == scan(forbid, s, FALSE, <<>>)
      r2 == scan(require, s, TRUE, r1.probes)
  IN  IF unknown # <<>>
      THEN [kind |-> "return", passed |-> FALSE,
            messages |-> <<Message("Internal error: unknown process rule(s): ", unknown)>>,
            probes |-> <<>>]
      ELSE IF r1.kind = "return"
      THEN [kind |-> "return", passed |-> FALSE,
            messages |-> <<messages[r1.token]>>, probes |-> r1.probes]
      ELSE IF r2.kind = "return"
      THEN [kind |-> "return", passed |-> FALSE,
            messages |-> <<messages[r2.token]>>, probes |-> r2.probes]
      ELSE [kind |-> "return", passed |-> TRUE, messages |-> <<>>, probes |-> r2.probes]

\* A check_process_rules whose forbid loop tests `if not has(t)`.
check_process_rules_forbid_negated(sql, require, forbid, unknown) ==
  LET s  == collapse_ws(lower(sql))
      r1 == scan(require, s, TRUE, <<>>)
      r2 == scan(forbid, s, TRUE, r1.probes)
  IN  IF unknown # <<>>
      THEN [kind |-> "return", passed |-> FALSE,
            messages |-> <<Message("Internal error: unknown process rule(s): ", unknown)>>,
            probes |-> <<>>]
      ELSE IF r1.kind = "return"
      THEN [kind |-> "return", passed |-> FALSE,
            messages |-> <<messages[r1.token]>>, probes |-> r1.probes]
      ELSE IF r2.kind = "return"
      THEN [kind |-> "return", passed |-> FALSE,
            messages |-> <<messages[r2.token]>>, probes |-> r2.probes]
      ELSE [kind |-> "return", passed |-> TRUE, messages |-> <<>>, probes |-> r2.probes]

\* check_process_rules with a message of its own for a forbidden construct
\* that is present.
check_process_rules_forbid_worded(sql, require, forbid, unknown) ==
  LET s  == collapse_ws(lower(sql))
      r1 == scan(require, s, TRUE, <<>>)
      r2 == scan(forbid, s, FALSE, r1.probes)
  IN  IF unknown # <<>>
      THEN [kind |-> "return", passed |-> FALSE,
            messages |-> <<Message("Internal error: unknown process rule(s): ", unknown)>>,
            probes |-> <<>>]
      ELSE IF r1.kind = "raise"
      THEN [kind |-> "raise", exc |-> "KeyError", probes |-> r1.probes]
      ELSE IF r1.kind = "return"
      THEN [kind |-> "return", passed |-> FALSE,
            messages |-> <<messages[r1.token]>>, probes |-> r1.probes]
      ELSE IF r2.kind = "raise"
      THEN [kind |-> "raise", exc |-> "KeyError", probes |-> r2.probes]
      ELSE IF r2.kind = "return"
      THEN [kind |-> "return", passed |-> FALSE,
            messages |-> <<Message("Don't use this construct: ", <<r2.token>>)>>,
            probes |-> r2.probes]
      ELSE [kind |-> "return", passed |-> TRUE, messages |-> <<>>, probes |-> r2.probes]

\* check_process_rules(sql, require=, forbid=), with `unknown` the list the
\* comprehension over the set built (one of orderings(unknown_rules)).
\* Returns the verdict, or the exception raised, and as `probes` the tokens
\* has() was called with. `require or []` is the list itself.
check_process_rules(sql, require, forbid, unknown) ==
  LET s  == collapse_ws(lower(sql))
      r1 == scan(require, s, TRUE, <<>>)
      r2 == scan(forbid, s, FALSE, r1.probes)
  IN  IF unknown # <<>>
      THEN [kind |-> "return", passed |-> FALSE,
            messages |-> <<Message("Internal error: unknown process rule(s): ", unknown)>>,
            probes |-> <<>>]
      ELSE IF r1.kind = "raise"
      THEN [kind |-> "raise", exc |-> "KeyError", probes |-> r1.probes]
      ELSE IF r1.kind = "return"
      THEN [kind |-> "return", passed |-> FALSE,
            messages |-> <<messages[r1.token]>>, probes |-> r1.probes]
      ELSE IF r2.kind = "raise"
      THEN [kind |-> "raise", exc |-> "KeyError", probes |-> r2.probes]
      ELSE IF r2.kind = "return"
      THEN [kind |-> "return", passed |-> FALSE,
            messages |-> <<messages[r2.token]>>, probes |-> r2.probes]
      ELSE [kind |-> "return", passed |-> TRUE, messages |-> <<>>, probes |-> r2.probes]


(***************************************************************************)
(* Inputs of the model                                                     *)
(***************************************************************************)

\* Largest number of rows of a result table handed to df_fingerprint.
MaxRows == 2

\* Column names.
col_a == <<"a">>
col_b == <<"b">>
col_c == <<"c">>
col_d == <<"d">>
col_n == <<"n">>
col_t == <<"t">>

\* The float 9.8999999999 (exact value 9.89999999990000038...).
F_9_8999999999 == FloatCell(FALSE, 98999, TRUE)
\* The float 9.90 (exact value 9.9000000000000003...).
F_9_90 == FloatCell(FALSE, 99000, TRUE)
\* The float 1.0.
F_1_0 == FloatCell(FALSE, 10000, FALSE)
\* The float 0.0.
F_0_0 == FloatCell(FALSE, 0, FALSE)
\* The float -0.004 (exact value -0.00400000000000000008...).
F_neg_0_004 == FloatCell(TRUE, 40, TRUE)

\* The text "x y" and two texts with the same words and other whitespace.
S_x_y == <<"x", " ", "y">>
S_x__y == <<" ", "x", "\t", " ", "y">>
\* The text "y".
S_y == <<"y">>

\* The values a cell of each column takes: column n holds numbers and
\* booleans, column t text, column a numbers, column b text and missing
\* values.
ColumnValues(name) ==
  IF name = col_n
  THEN {IntCell(1), F_1_0, F_9_8999999999, F_9_90, F_neg_0_004, F_0_0, BoolCell(TRUE)}
  ELSE IF name = col_t
  THEN {StrCell(S_x_y), StrCell(S_x__y), StrCell(S_y), NullCell("None")}
  ELSE IF name = col_a
  THEN {IntCell(1), F_9_8999999999}
  ELSE {NullCell("None"), NullCell("nan"), StrCell(S_x_y)}

\* The column lists of the result tables.
ColumnLists == {<<>>, <<col_n>>, <<col_t>>, <<col_a, col_b>>, <<col_b, col_a>>}

\* The rows over a column list.
RowsOf(columns) ==
  {r \in [1..Len(columns) -> UNION {ColumnValues(columns[j]) : j \in 1..Len(columns)}] :
     \A j \in 1..Len(columns) : r[j] \in ColumnValues(columns[j])}

\* The tables over a column list with at most n rows; a table without
\* columns has no rows.
TablesOf(columns, n) ==
  {DataFrame(columns, rows) :
     rows \in UNION {[1..k -> RowsOf(columns)] : k \in 0..(IF columns = <<>> THEN 0 ELSE n)}}

\* The result tables handed to df_fingerprint.
Tables == UNION {TablesOf(columns, MaxRows) : columns \in ColumnLists}

\* The na_tokens df_fingerprint is called with: the default and another.
NaTokens == {NA_TOKEN, <<"N", "U", "L", "L">>}

\* Largest number of rule names in require and forbid together.
MaxRules == 2

\* The query texts check_process_rules is called with.
\* "SELECT * FROM t"
Q_plain ==
  <<"S", "E", "L", "E", "C", "T", " ", "*", " ", "F", "R", "O", "M", " ",
     "t">>
\* "SELECT * FROM t WHERE x > 1"
Q_where ==
  <<"S", "E", "L", "E", "C", "T", " ", "*", " ", "F", "R", "O", "M", " ",
     "t", " ", "W", "H", "E", "R", "E", " ", "x", " ", ">", " ", "1">>
\* "SELECT a FROM t\n\tJOIN u"
Q_join ==
  <<"S", "E", "L", "E", "C", "T", " ", "a", " ", "F", "R", "O", "M", " ",
     "t", "\n", "\t", "J", "O", "I", "N", " ", "u">>
\* "select * from rejoined"
Q_rejoined ==
  <<"s", "e", "l", "e", "c", "t", " ", "*", " ", "f", "r", "o", "m", " ",
     "r", "e", "j", "o", "i", "n", "e", "d">>
\* "SELECT a FROM t GROUP  BY a HAVING a > 1"
Q_group_having ==
  <<"S", "E", "L", "E", "C", "T", " ", "a", " ", "F", "R", "O", "M", " ",
     "t", " ", "G", "R", "O", "U", "P", " ", " ", "B", "Y", " ", "a", " ",
     "H", "A", "V", "I", "N", "G", " ", "a", " ", ">", " ", "1">>
\* "SELECT DISTINCT a FROM t ORDER BY a LIMIT 1"
Q_distinct_order_limit ==
  <<"S", "E", "L", "E", "C", "T", " ", "D", "I", "S", "T", "I", "N", "C",
     "T", " ", "a", " ", "F", "R", "O", "M", " ", "t", " ", "O", "R", "D",
     "E", "R", " ", "B", "Y", " ", "a", " ", "L", "I", "M", "I", "T", " ",
     "1">>
\* "SELECT a FROM t WHERE a IN (Select 1)"
Q_subquery ==
  <<"S", "E", "L", "E", "C", "T", " ", "a", " ", "F", "R", "O", "M", " ",
     "t", " ", "W", "H", "E", "R", "E", " ", "a", " ", "I", "N", " ", "(",
     "S", "e", "l", "e", "c", "t", " ", "1", ")">>
\* "SELECT a FROM ( SELECT 1 ) LIMIT 2"
Q_paren_space ==
  <<"S", "E", "L", "E", "C", "T", " ", "a", " ", "F", "R", "O", "M", " ",
     "(", " ", "S", "E", "L", "E", "C", "T", " ", "1", " ", ")", " ", "L",
     "I", "M", "I", "T", " ", "2">>
\* ""
Q_empty ==
  <<>>

Queries ==
  {Q_plain, Q_where, Q_join, Q_rejoined, Q_group_having, Q_distinct_order_limit, Q_subquery, Q_paren_space, Q_empty}

\* The rule names a caller passes: the vocabulary and two names outside it.
RuleNames == HasTokens \cup {"union", "WHERE"}

\* The lists of at most n rule names.
NameLists(n) == UNION {[1..k -> RuleNames] : k \in 0..n}

\* The (sql, require, forbid) check_process_rules is called with.
RulesArgs ==
  {a \in [sql : Queries, require : NameLists(MaxRules), forbid : NameLists(MaxRules)] :
     Len(a.require) + Len(a.forbid) <= MaxRules}

(***************************************************************************)
(* State                                                                   *)
(***************************************************************************)

VARIABLES
  pc,          \* the operation about to run, "done" once it has returned
  fp_args,     \* the arguments of the df_fingerprint call
  fp_ret,      \* what df_fingerprint returned: [h, meta]
  cfg,         \* the configuration captured by make_df_validator_nospoilers
  val_df,      \* the result table run_query hands to the validator
  val_ret,     \* the verdict of the validator: [passed, messages]
  val_checks,  \* the checks the validator evaluated, in order
  banner,      \* validation_widget: what show_validation displays
  rules_args,  \* the arguments of the check_process_rules call
  rules_ret,   \* what check_process_rules returned or raised
  heap,        \* the tables alive, heap[1] being the table of the caller
  conc_args,   \* the arguments of each of two calls that run concurrently
  conc_pc,     \* the source line each concurrent call is at
  conc_frames, \* the local variables of the concurrent calls
  conc_ret     \* what each concurrent call returned or raised

vars ==
  <<pc, fp_args, fp_ret, cfg, val_df, val_ret, val_checks, banner, rules_args, rules_ret,
    heap, conc_args, conc_pc, conc_frames, conc_ret>>

conc_vars == <<conc_args, conc_pc, conc_frames, conc_ret>>

fp_vars == <<fp_args, fp_ret>>
val_vars == <<cfg, val_df, val_ret, val_checks, banner>>
rules_vars == <<rules_args, rules_ret>>

(***************************************************************************)
(* df_fingerprint called on its own                                        *)
(***************************************************************************)

\* The argument lists df_fingerprint(df, sort_rows=, sort_cols=,
\* normalize_whitespace=, na_token=) is called with.
FingerprintArgs ==
  [df : Tables, sort_rows : BOOLEAN, sort_cols : BOOLEAN,
   normalize_whitespace : BOOLEAN, na_token : NaTokens]

InitFP ==
  /\ pc = "df_fingerprint"
  /\ fp_args \in FingerprintArgs
  /\ fp_ret = NONE
  /\ heap = <<fp_args.df>>
  /\ cfg = NONE /\ val_df = NONE /\ val_ret = NONE /\ val_checks = NONE /\ banner = NONE
  /\ rules_args = NONE /\ rules_ret = NONE
  /\ conc_args = NONE /\ conc_pc = NONE /\ conc_frames = NONE /\ conc_ret = NONE

\* The call df_fingerprint(**fp_args).
call_df_fingerprint ==
  /\ pc = "df_fingerprint"
  /\ pc' = "done"
  /\ fp_ret' = df_fingerprint(fp_args.df, fp_args.sort_rows, fp_args.sort_cols,
                              fp_args.normalize_whitespace, fp_args.na_token)
  /\ heap' = df_fingerprint_objects(heap, 1, fp_args.sort_rows, fp_args.sort_cols,
                                    fp_args.normalize_whitespace, fp_args.na_token).heap
  /\ UNCHANGED <<fp_args, val_vars, rules_vars, conc_vars>>

NextFP == call_df_fingerprint

SpecFP == InitFP /\ [][NextFP]_vars

(***************************************************************************)
(* A validator built by make_df_validator_nospoilers and run by run_query  *)
(***************************************************************************)

\* Largest number of rows of a result table handed to the validator.
MaxValRows == 2

\* The result tables read_sql_query returns to run_query.
ValidatorTables ==
  {df \in UNION {TablesOf(columns, MaxValRows) :
                   columns \in {<<col_a>>, <<col_a, col_b>>, <<col_b, col_a>>}} :
     \A r \in 1..Len(df.rows), j \in 1..Len(df.columns) : df.rows[r][j] # NullCell("nan")}

\* The reference results whose digest an exercise stores as expected_hash.
ReferenceTables ==
  {DataFrame(<<col_a, col_b>>, <<<<IntCell(1), StrCell(S_x_y)>>>>),
   DataFrame(<<col_a>>, <<<<F_9_8999999999>>>>)}

\* The required_cols of the validators (col_c and col_d are in no table).
RequiredCols ==
  {<<>>, <<col_a>>, <<col_a, col_b>>, <<col_a, col_c>>, <<col_c, col_d>>, <<col_d, col_c>>}

\* The configurations make_df_validator_nospoilers is called with; the
\* expected_hash is the digest of a reference result under the sort options
\* of the validator.
ValidatorConfigs ==
  {c \in [expected_hash : {df_fingerprint(ref, sr, sc, TRUE, NA_TOKEN).h :
                              ref \in ReferenceTables, sr \in BOOLEAN, sc \in BOOLEAN},
          required_cols : RequiredCols,
          exact_cols : BOOLEAN,
          expected_rows : {NONE, Some(1), Some(2)},
          sort_rows : BOOLEAN,
          sort_cols : BOOLEAN,
          hide_missing_cols : BOOLEAN,
          hide_row_count : BOOLEAN] :
     \E ref \in ReferenceTables :
       c.expected_hash = df_fingerprint(ref, c.sort_rows, c.sort_cols, TRUE, NA_TOKEN).h}

InitVal ==
  /\ pc = "run_query"
  /\ cfg \in ValidatorConfigs
  /\ val_df \in ValidatorTables
  /\ val_ret = NONE /\ val_checks = NONE /\ banner = NONE
  /\ heap = <<val_df>>
  /\ fp_args = NONE /\ fp_ret = NONE
  /\ rules_args = NONE /\ rules_ret = NONE
  /\ conc_args = NONE /\ conc_pc = NONE /\ conc_frames = NONE /\ conc_ret = NONE

\* run_query on a SELECT with a validator set: `ok, problems = validator(q,
\* df, conn); show_validation(ok, problems)`. The query text and the
\* connection are handed over and not read by the validator.
run_query ==
  /\ pc = "run_query"
  /\ pc' = "done"
  /\ LET v == validator(cfg, Q_plain, val_df, NONE)
     IN  /\ val_ret' = [passed |-> v.passed, messages |-> v.messages]
         /\ val_checks' = v.checks
         /\ heap' = validator_objects(heap, 1, cfg, v.checks)
         /\ \E choice \in 1..Len(SUCCESS_MESSAGES) :
              banner' = show_validation(val_ret'.passed, val_ret'.messages, choice)
  /\ UNCHANGED <<cfg, val_df, fp_vars, rules_vars, conc_vars>>

NextVal == run_query

SpecVal == InitVal /\ [][NextVal]_vars

(***************************************************************************)
(* check_process_rules called on its own                                   *)
(***************************************************************************)

InitRules ==
  /\ pc = "check_process_rules"
  /\ rules_args \in RulesArgs
  /\ rules_ret = NONE
  /\ heap = NONE
  /\ fp_args = NONE /\ fp_ret = NONE
  /\ cfg = NONE /\ val_df = NONE /\ val_ret = NONE /\ val_checks = NONE /\ banner = NONE
  /\ conc_args = NONE /\ conc_pc = NONE /\ conc_frames = NONE /\ conc_ret = NONE

\* The call check_process_rules(sql, require=, forbid=); the order in which
\* the set of names is iterated is not fixed.
call_check_process_rules ==
  /\ pc = "check_process_rules"
  /\ pc' = "done"
  /\ \E unknown \in orderings(unknown_rules(rules_args.require, rules_args.forbid)) :
       rules_ret' = check_process_rules(rules_args.sql, rules_args.require,
                                        rules_args.forbid, unknown)
  /\ UNCHANGED <<rules_args, fp_vars, val_vars, heap, conc_vars>>

NextRules == call_check_process_rules

SpecRules == InitRules /\ [][NextRules]_vars

(***************************************************************************)
(* Two calls running concurrently                                          *)
(***************************************************************************)

\* One frame for all calls, as if the local variables were module globals.
frame_shared(i) == 1

\* The frame that holds the local variables of call i (problems,
\* structural_issue, missing, got_hash; s and the loop position): a call
\* binds its locals in a frame of its own.
frame(i) == i

\* The configurations of the validators that run concurrently.
ConcValidatorConfigs ==
  { c \in ValidatorConfigs :
      /\ c.sort_rows /\ ~c.sort_cols /\ ~c.hide_row_count /\ ~c.hide_missing_cols
      /\ c.expected_rows \in {NONE, Some(1)}
      /\ c.required_cols \in {<<>>, <<col_a>>, <<col_a, col_c>>}
      /\ c.expected_hash
           = df_fingerprint(DataFrame(<<col_a, col_b>>, <<<<IntCell(1), StrCell(S_x_y)>>>>),
                            TRUE, FALSE, TRUE, NA_TOKEN).h }

\* The tables handed to the validators that run concurrently.
ConcTables ==
  { DataFrame(<<col_a, col_b>>, <<<<IntCell(1), StrCell(S_x_y)>>>>),
    DataFrame(<<col_a, col_b>>, <<>>),
    DataFrame(<<col_a>>, <<<<F_9_8999999999>>>>) }

\* The rule lists of the check_process_rules calls that run concurrently.
ConcRules ==
  { <<<<>>, <<>>>>,
    <<<<"where">>, <<"join">>>>,
    <<<<"join", "where">>, <<>>>>,
    <<<<"union">>, <<>>>>,
    <<<<>>, <<"limit">>>>,
    <<<<"where">>, <<"where">>>> }

\* The calls that run concurrently: a validator built from its own
\* configuration on its own table, or check_process_rules.
ConcCalls ==
  { [kind |-> "validator", cfg |-> c, df |-> d, sql |-> Q_plain,
     require |-> <<>>, forbid |-> <<>>] :
      c \in ConcValidatorConfigs, d \in ConcTables }
  \cup
  { [kind |-> "check_process_rules", cfg |-> NONE, df |-> NONE, sql |-> q,
     require |-> r[1], forbid |-> r[2]] :
      q \in {Q_where, Q_join}, r \in ConcRules }

\* The locals of a call before it binds them.
EmptyFrame ==
  [problems |-> <<>>, structural_issue |-> FALSE, missing |-> <<>>,
   got_hash |-> NONE, s |-> <<>>, rest |-> <<>>]

InitConc ==
  /\ pc = "concurrent"
  /\ conc_args \in [1..2 -> ConcCalls]
  /\ conc_pc = [i \in 1..2 |-> IF conc_args[i].kind = "validator" THEN "L61" ELSE "L97"]
  /\ conc_frames = [f \in 1..2 |-> EmptyFrame]
  /\ conc_ret = [i \in 1..2 |-> NONE]
  /\ heap = NONE
  /\ fp_args = NONE /\ fp_ret = NONE
  /\ cfg = NONE /\ val_df = NONE /\ val_ret = NONE /\ val_checks = NONE /\ banner = NONE
  /\ rules_args = NONE /\ rules_ret = NONE

\* Call i is the validator (or check_process_rules) at the given line.
at(i, kind, line) == conc_args[i].kind = kind /\ conc_pc[i] = line

\* Call i goes on to the given line.
goto(i, line) ==
  /\ conc_pc' = [conc_pc EXCEPT ![i] = line]
  /\ UNCHANGED conc_ret

\* Call i returns (passed, messages); other_at records the line the other
\* call is at.
return(i, passed, msgs) ==
  /\ conc_pc' = [conc_pc EXCEPT ![i] = "done"]
  /\ conc_ret' = [conc_ret EXCEPT ![i] = [kind |-> "return", passed |-> passed,
                                          messages |-> msgs, other_at |-> conc_pc[3 - i]]]

\* Call i raises KeyError.
raise(i) ==
  /\ conc_pc' = [conc_pc EXCEPT ![i] = "done"]
  /\ conc_ret' = [conc_ret EXCEPT ![i] = [kind |-> "raise", exc |-> "KeyError",
                                          other_at |-> conc_pc[3 - i]]]

\* What the other specifications' variables do in a step of a call.
conc_frame_rest == UNCHANGED <<pc, conc_args, heap, fp_vars, val_vars, rules_vars>>

\* problems = []; structural_issue = False
validator_L61(i) ==
  /\ at(i, "validator", "L61")
  /\ conc_frames' = [conc_frames EXCEPT ![frame(i)].problems = <<>>,
                                        ![frame(i)].structural_issue = FALSE]
  /\ goto(i, "L64")
  /\ conc_frame_rest

\* if required_cols: missing = [c for c in required_cols if c not in df.columns]
validator_L64(i) ==
  /\ at(i, "validator", "L64")
  /\ IF conc_args[i].cfg.required_cols # <<>>
     THEN /\ conc_frames' = [conc_frames EXCEPT ![frame(i)].missing =
                               missing_columns(conc_args[i].cfg.required_cols, conc_args[i].df)]
          /\ goto(i, "L66")
     ELSE /\ UNCHANGED conc_frames
          /\ goto(i, "L74")
  /\ conc_frame_rest

\* if missing: structural_issue = True; problems.append(...)
validator_L66(i) ==
  /\ at(i, "validator", "L66")
  /\ LET f == conc_frames[frame(i)]
     IN  IF f.missing # <<>>
         THEN /\ conc_frames' =
                   [conc_frames EXCEPT
                      ![frame(i)].structural_issue = TRUE,
                      ![frame(i)].problems =
                         Append(f.problems,
                                IF conc_args[i].cfg.hide_missing_cols
                                THEN MSG_WRONG_COLUMNS
                                ELSE msg_missing_columns(f.missing))]
              /\ goto(i, "L72")
         ELSE /\ UNCHANGED conc_frames
              /\ goto(i, "L74")
  /\ conc_frame_rest

\* return False, problems
validator_L72(i) ==
  /\ at(i, "validator", "L72")
  /\ return(i, FALSE, conc_frames[frame(i)].problems)
  /\ UNCHANGED conc_frames
  /\ conc_frame_rest

\* if exact_cols and required_cols: if set(df.columns) != set(required_cols): ...
validator_L74(i) ==
  /\ at(i, "validator", "L74")
  /\ LET c == conc_args[i].cfg
     IN  IF c.exact_cols /\ c.required_cols # <<>>
              /\ column_set(conc_args[i].df.columns) # column_set(c.required_cols)
         THEN /\ conc_frames' = [conc_frames EXCEPT ![frame(i)].structural_issue = TRUE]
              /\ return(i, FALSE, <<MSG_WRONG_COLUMNS>>)
         ELSE /\ UNCHANGED conc_frames
              /\ goto(i, "L79")
  /\ conc_frame_rest

\* if structural_issue: return False, problems
validator_L79(i) ==
  /\ at(i, "validator", "L79")
  /\ IF conc_frames[frame(i)].structural_issue
     THEN return(i, FALSE, conc_frames[frame(i)].problems)
     ELSE goto(i, "L82")
  /\ UNCHANGED conc_frames
  /\ conc_frame_rest

\* if expected_rows is not None and len(df) != expected_rows: return ...
validator_L82(i) ==
  /\ at(i, "validator", "L82")
  /\ LET c == conc_args[i].cfg
     IN  IF c.expected_rows # NONE /\ Some(Len(conc_args[i].df.rows)) # c.expected_rows
         THEN return(i, FALSE, <<MSG_WRONG_ROWS>>)
         ELSE goto(i, "L87")
  /\ UNCHANGED conc_frames
  /\ conc_frame_rest

\* got_hash, _ = df_fingerprint(df, sort_rows=sort_rows, sort_cols=sort_cols)
validator_L87(i) ==
  /\ at(i, "validator", "L87")
  /\ conc_frames' = [conc_frames EXCEPT ![frame(i)].got_hash =
                       got_hash(conc_args[i].cfg, conc_args[i].df)]
  /\ goto(i, "L88")
  /\ conc_frame_rest

\* if got_hash != expected_hash: return False, [...]; return True, [...]
validator_L88(i) ==
  /\ at(i, "validator", "L88")
  /\ IF conc_frames[frame(i)].got_hash # conc_args[i].cfg.expected_hash
     THEN return(i, FALSE, <<MSG_NOT_CORRECT>>)
     ELSE return(i, TRUE, <<MSG_NICE>>)
  /\ UNCHANGED conc_frames
  /\ conc_frame_rest

\* require = require or []; forbid = forbid or []; s = " ".join(sql.lower().split())
check_process_rules_L97(i) ==
  /\ at(i, "check_process_rules", "L97")
  /\ conc_frames' = [conc_frames EXCEPT ![frame(i)].s = collapse_ws(lower(conc_args[i].sql))]
  /\ goto(i, "L123")
  /\ conc_frame_rest

\* unknown = [...]; if unknown: return False, [...]; then the loop over
\* require starts
check_process_rules_L123(i) ==
  /\ at(i, "check_process_rules", "L123")
  /\ \E unknown \in orderings(unknown_rules(conc_args[i].require, conc_args[i].forbid)) :
       IF unknown # <<>>
       THEN /\ return(i, FALSE,
                      <<Message("Internal error: unknown process rule(s): ", unknown)>>)
            /\ UNCHANGED conc_frames
       ELSE /\ conc_frames' = [conc_frames EXCEPT ![frame(i)].rest = conc_args[i].require]
            /\ goto(i, "L127")
  /\ conc_frame_rest

\* for t in require: if not has(t): return False, [messages[t]]
check_process_rules_L127(i) ==
  /\ at(i, "check_process_rules", "L127")
  /\ LET f == conc_frames[frame(i)]
     IN  IF f.rest = <<>>
         THEN /\ conc_frames' = [conc_frames EXCEPT ![frame(i)].rest = conc_args[i].forbid]
              /\ goto(i, "L131")
         ELSE IF Head(f.rest) \notin HasTokens
         THEN raise(i) /\ UNCHANGED conc_frames
         ELSE IF ~has(Head(f.rest), f.s)
         THEN return(i, FALSE, <<messages[Head(f.rest)]>>) /\ UNCHANGED conc_frames
         ELSE /\ conc_frames' = [conc_frames EXCEPT ![frame(i)].rest = Tail(f.rest)]
              /\ goto(i, "L127")
  /\ conc_frame_rest

\* for t in forbid: if has(t): return False, [messages[t]]; return True, []
check_process_rules_L131(i) ==
  /\ at(i, "check_process_rules", "L131")
  /\ LET f == conc_frames[frame(i)]
     IN  IF f.rest = <<>>
         THEN return(i, TRUE, <<>>) /\ UNCHANGED conc_frames
         ELSE IF Head(f.rest) \notin HasTokens
         THEN raise(i) /\ UNCHANGED conc_frames
         ELSE IF has(Head(f.rest), f.s)
         THEN return(i, FALSE, <<messages[Head(f.rest)]>>) /\ UNCHANGED conc_frames
         ELSE /\ conc_frames' = [conc_frames EXCEPT ![frame(i)].rest = Tail(f.rest)]
              /\ goto(i, "L131")
  /\ conc_frame_rest

\* One step of one of the two calls, in any interleaving.
NextConc ==
  \E i \in 1..2 :
    \/ validator_L61(i)
    \/ validator_L64(i)
    \/ validator_L66(i)
    \/ validator_L72(i)
    \/ validator_L74(i)
    \/ validator_L79(i)
    \/ validator_L82(i)
    \/ validator_L87(i)
    \/ validator_L88(i)
    \/ check_process_rules_L97(i)
    \/ check_process_rules_L123(i)
    \/ check_process_rules_L127(i)
    \/ check_process_rules_L131(i)

SpecConc == InitConc /\ [][NextConc]_vars

(***************************************************************************)
(* Properties of df_fingerprint                                            *)
(***************************************************************************)

\* The digest of a table under the options of the call made.
digest_of(df) ==
  df_fingerprint(df, fp_args.sort_rows, fp_args.sort_cols,
                 fp_args.normalize_whitespace, fp_args.na_token).h

\* The canonical table of a table under the options of the call made.
canonical_of(df) ==
  canonical(df, fp_args.sort_rows, fp_args.sort_cols,
            fp_args.normalize_whitespace, fp_args.na_token)

\* The table with its rows in the order p[1], p[2], ...
permute_rows(df, p) == DataFrame(df.columns, [i \in 1..Len(df.rows) |-> df.rows[p[i]]])

\* The table with its columns (names and cells) in the order p[1], p[2], ...
permute_columns(df, p) == reindex(df, [j \in 1..Len(df.columns) |-> df.columns[p[j]]])

\* The table with the cell of row r, column j replaced by v.
replace_cell(df, r, j, v) ==
  DataFrame(df.columns, [df.rows EXCEPT ![r] = [df.rows[r] EXCEPT ![j] = v]])

\* The df_fingerprint call has returned.
FingerprintDone == pc = "done" /\ fp_ret # NONE

\* C1: with sort_rows=True, every permutation of the rows of the table
\* (duplicate and tying rows included) has the digest the call returned.
C1_OrderInvariance ==
  (FingerprintDone /\ fp_args.sort_rows) =>
    \A p \in Permutations(1..Len(fp_args.df.rows)) :
      digest_of(permute_rows(fp_args.df, p)) = fp_ret.h

\* C1 witness: a call with sort_rows=True on a table of two or more rows
\* that differ once normalized and that the sort has reordered.
C1_Witness ==
  /\ FingerprintDone
  /\ fp_args.sort_rows
  /\ Len(fp_args.df.rows) >= 2
  /\ canonical_of(fp_args.df).rows
       # map_norm(fp_args.df, fp_args.normalize_whitespace, fp_args.na_token).rows

\* The number of hundredths a numeric cell rounds to (its two-decimal
\* value; minus zero and zero are the same number).
value_2dp(v) ==
  LET x  == IF v.t = "int" THEN float_of_int(v.i) ELSE v
      q  == x.mag \div 100
      r  == x.mag % 100
      c  == IF r > 50 \/ (r = 50 /\ (x.sticky \/ q % 2 = 1)) THEN q + 1 ELSE q
  IN  IF x.neg THEN -c ELSE c

\* int and float cells (bool is not numeric here).
IsNumeric(v) == v.t \in {"int", "float"}

\* C7 as claimed: replacing a numeric cell by any number that rounds to the
\* same two-decimal value leaves the digest unchanged.
C7_NumericTolerance ==
  FingerprintDone =>
    \A r \in 1..Len(fp_args.df.rows), j \in 1..Len(fp_args.df.columns) :
      IsNumeric(fp_args.df.rows[r][j]) =>
        \A w \in {c \in ColumnValues(col_n) : IsNumeric(c)} :
          value_2dp(w) = value_2dp(fp_args.df.rows[r][j]) =>
            digest_of(replace_cell(fp_args.df, r, j, w)) = fp_ret.h

\* The ways pandas represents a missing value in a cell.
NullKinds == {"None", "nan", "NaT"}

\* C8: replacing a missing cell by any other missing-value representation
\* leaves the canonical table (so the sorted row order) and the digest
\* unchanged, and the cell is the configured na_token.
C8_NullNormalization ==
  FingerprintDone =>
    \A r \in 1..Len(fp_args.df.rows), j \in 1..Len(fp_args.df.columns) :
      fp_args.df.rows[r][j].t = "null" =>
        /\ norm(fp_args.df.rows[r][j], fp_args.normalize_whitespace, fp_args.na_token)
             = fp_args.na_token
        /\ \A k \in NullKinds :
             LET other == replace_cell(fp_args.df, r, j, NullCell(k))
             IN  /\ canonical_of(other) = canonical_of(fp_args.df)
                 /\ digest_of(other) = fp_ret.h

\* C8 witness: a sorted call on a table holding a NaN cell and another row.
C8_Witness ==
  /\ FingerprintDone
  /\ fp_args.sort_rows
  /\ Len(fp_args.df.rows) >= 2
  /\ \E r \in 1..Len(fp_args.df.rows), j \in 1..Len(fp_args.df.columns) :
       fp_args.df.rows[r][j] = NullCell("nan")

\* The tables that hold the columns of df in any order.
Rearrangements(df) ==
  {permute_columns(df, q) : q \in Permutations(1..Len(df.columns))}

\* C9: the digest is decided by the canonical table alone: every table with
\* the canonical table of the one fingerprinted has the digest returned,
\* whatever its metadata; the metadata are the row count and the column
\* names of the table as given.
C9_DigestOfCanonicalForm ==
  FingerprintDone =>
    /\ fp_ret.meta = [rows |-> Len(fp_args.df.rows), cols |-> fp_args.df.columns]
    /\ fp_ret.h = sha256_hexdigest(to_csv(canonical_of(fp_args.df)))
    /\ \A other \in Rearrangements(fp_args.df) :
         canonical_of(other) = canonical_of(fp_args.df) => digest_of(other) = fp_ret.h

\* C9 witness: a call with sort_cols=True on a table whose columns are not
\* in sorted order, so that a table with other metadata has its canonical
\* table.
C9_Witness ==
  /\ FingerprintDone
  /\ fp_args.sort_cols
  /\ fp_args.df.columns = <<col_b, col_a>>
  /\ Len(fp_args.df.rows) >= 1
  /\ canonical_of(DataFrame(<<col_a, col_b>>,
                   [i \in 1..Len(fp_args.df.rows) |->
                      <<fp_args.df.rows[i][2], fp_args.df.rows[i][1]>>]))
       = canonical_of(fp_args.df)

(***************************************************************************)
(* Properties of the validator                                             *)
(***************************************************************************)

\* run_query has called the validator and shown its verdict.
ValidatorDone == pc = "done" /\ val_ret # NONE

\* Check 1 fails: required_cols is non-empty and names a column the table
\* does not have.
FailsRequired ==
  \E c \in column_set(cfg.required_cols) : c \notin column_set(val_df.columns)

\* Check 2 fails: exact_cols is set, required_cols is non-empty and the
\* column set of the table is another set.
FailsExact ==
  /\ cfg.exact_cols
  /\ cfg.required_cols # <<>>
  /\ column_set(val_df.columns) # column_set(cfg.required_cols)

\* Check 3 fails: expected_rows is set and is not the row count.
FailsRows == cfg.expected_rows # NONE /\ cfg.expected_rows # Some(Len(val_df.rows))

\* Check 4 fails: the digest of the table under the sort options of the
\* validator is not expected_hash.
FailsDigest ==
  df_fingerprint(val_df, cfg.sort_rows, cfg.sort_cols, TRUE, NA_TOKEN).h # cfg.expected_hash

\* The checks the configuration asks for, in the order of the claim.
ApplicableChecks ==
  (IF cfg.required_cols # <<>> THEN <<"required_cols">> ELSE <<>>)
    \o (IF cfg.exact_cols /\ cfg.required_cols # <<>> THEN <<"exact_cols">> ELSE <<>>)
    \o (IF cfg.expected_rows # NONE THEN <<"expected_rows">> ELSE <<>>)
    \o <<"expected_hash">>

\* The first check that fails, "none" when every check passes.
FirstFailing ==
  IF FailsRequired THEN "required_cols"
  ELSE IF FailsExact THEN "exact_cols"
  ELSE IF FailsRows THEN "expected_rows"
  ELSE IF FailsDigest THEN "expected_hash"
  ELSE "none"

\* The messages with which a check fails.
FailureMessages(check) ==
  CASE check = "required_cols" ->
         {<<MSG_WRONG_COLUMNS>>} \cup
         {<<Message("Missing column(s): ", join(<<",", " ">>, m))>> :
            m \in {SelectSeq(cfg.required_cols,
                             LAMBDA c : c \notin column_set(val_df.columns))}}
    [] check = "exact_cols" -> {<<MSG_WRONG_COLUMNS>>}
    [] check = "expected_rows" -> {<<MSG_WRONG_ROWS>>}
    [] check = "expected_hash" -> {<<MSG_NOT_CORRECT>>}

\* C2: the checks are evaluated in the order required columns, exact
\* column set, row count, digest; the verdict is that of the first check
\* that fails, and no check after it is evaluated. So a table that misses
\* a required column fails with a column message whatever its digest and
\* its row count are.
C2_FirstFailingCheckDecides ==
  ValidatorDone =>
    /\ \E n \in 1..Len(ApplicableChecks) : val_checks = SubSeq(ApplicableChecks, 1, n)
    /\ FirstFailing # "none" =>
         /\ ~val_ret.passed
         /\ val_checks[Len(val_checks)] = FirstFailing
         /\ val_ret.messages \in FailureMessages(FirstFailing)
    /\ FirstFailing = "none" => val_checks = ApplicableChecks

\* C2 witness: a table that misses a required column, has another row
\* count than expected_rows, and has the expected digest.
C2_Witness ==
  /\ ValidatorDone
  /\ FailsRequired
  /\ FailsRows
  /\ ~FailsDigest

\* C3: when no structural check fails, the verdict passes exactly when the
\* digest of the table under the configured sort_rows and sort_cols equals
\* expected_hash, and a mismatch is reported by the one fixed "not correct
\* yet" message, which carries no detail.
C3_DigestDecides ==
  (ValidatorDone /\ ~FailsRequired /\ ~FailsExact /\ ~FailsRows) =>
    /\ val_ret.passed <=> ~FailsDigest
    /\ ~val_ret.passed =>
         /\ val_ret.messages = <<MSG_NOT_CORRECT>>
         /\ MSG_NOT_CORRECT.detail = <<>>

\* C3 witness: a validator with sort_cols=True passes a table whose
\* columns are not in sorted order.
C3_Witness ==
  /\ ValidatorDone
  /\ val_ret.passed
  /\ cfg.sort_cols
  /\ val_df.columns = <<col_b, col_a>>

\* The pool of encouragement strings.
Pool == {SUCCESS_MESSAGES[i] : i \in 1..Len(SUCCESS_MESSAGES)}

\* C10 as claimed: the message a passing validator returns is one of the
\* pool of encouragement strings.
C10_ValidatorMessageFromPool ==
  (ValidatorDone /\ val_ret.passed) =>
    /\ Len(val_ret.messages) = 1
    /\ val_ret.messages[1].text \in Pool

\* C10 as amended: when every check passes, the validator returns
\* passed=True with its one fixed message; the banner then shows a title
\* from the pool and no message, and a failing verdict never shows one, so
\* the title chosen does not bear on the verdict.
C10_FixedMessageAndPoolTitle ==
  ValidatorDone =>
    /\ val_ret.passed <=> FirstFailing = "none"
    /\ val_ret.passed =>
         /\ val_ret.messages = <<MSG_NICE>>
         /\ banner.cls = "ok"
         /\ banner.title \in Pool
         /\ banner.message = <<>>
    /\ ~val_ret.passed =>
         /\ banner.cls = "err"
         /\ banner.title \notin Pool
         /\ banner.message = val_ret.messages

\* C10 witness: a passing verdict shown with the last title of the pool.
C10_Witness ==
  /\ ValidatorDone
  /\ val_ret.passed
  /\ banner.title = SUCCESS_MESSAGES[Len(SUCCESS_MESSAGES)]

(***************************************************************************)
(* Properties of check_process_rules                                       *)
(***************************************************************************)

\* The check_process_rules call has ended.
RulesDone == pc = "done" /\ rules_ret # NONE

\* The closed vocabulary of rule names.
Vocabulary ==
  {"where", "join", "group_by", "having", "distinct", "order_by", "limit", "subquery"}

\* Every name in require and forbid is in the vocabulary.
AllRecognized ==
  name_set(rules_args.require) \cup name_set(rules_args.forbid) \subseteq Vocabulary

\* The query text as the detector sees it.
NormalizedQuery == collapse_ws(lower(rules_args.sql))

\* The positions of require whose construct is missing, and the positions
\* of forbid whose construct is present.
MissingRequired ==
  {i \in 1..Len(rules_args.require) : ~has(rules_args.require[i], NormalizedQuery)}
PresentForbidden ==
  {i \in 1..Len(rules_args.forbid) : has(rules_args.forbid[i], NormalizedQuery)}

\* The least element of a non-empty set of positions.
Least(S) == CHOOSE i \in S : \A k \in S : i <= k

\* C4: with every name recognized, a violation is reported by a list of
\* one message: that of the first missing construct of require, if there
\* is one, and else that of the first present construct of forbid; no rule
\* after the one reported is looked at.
C4_FirstViolationOnly ==
  (RulesDone /\ AllRecognized /\ (MissingRequired # {} \/ PresentForbidden # {})) =>
    /\ rules_ret.kind = "return"
    /\ ~rules_ret.passed
    /\ Len(rules_ret.messages) = 1
    /\ IF MissingRequired # {}
       THEN /\ rules_ret.messages[1] = messages[rules_args.require[Least(MissingRequired)]]
            /\ rules_ret.probes = SubSeq(rules_args.require, 1, Least(MissingRequired))
       ELSE /\ rules_ret.messages[1] = messages[rules_args.forbid[Least(PresentForbidden)]]
            /\ rules_ret.probes
                 = rules_args.require \o SubSeq(rules_args.forbid, 1, Least(PresentForbidden))

\* C4 witness: a query that misses a required construct and holds a
\* forbidden one, whose messages differ.
C4_Witness ==
  /\ RulesDone
  /\ AllRecognized
  /\ MissingRequired # {}
  /\ PresentForbidden # {}
  /\ messages[rules_args.require[1]] # messages[rules_args.forbid[1]]

\* C5: the call returns (True, []) exactly when every name is in the
\* vocabulary, every required construct is detected and no forbidden one
\* is; in every other case passed is false and the messages are not empty.
C5_PassExactlyWhenRulesHold ==
  RulesDone =>
    /\ rules_ret.kind = "return"
    /\ rules_ret.passed <=>
         (AllRecognized /\ MissingRequired = {} /\ PresentForbidden = {})
    /\ rules_ret.passed => rules_ret.messages = <<>>
    /\ ~rules_ret.passed => rules_ret.messages # <<>>

\* C5 witness: "SELECT * FROM t WHERE x > 1" with require=["where"] and
\* forbid=["limit"] has returned (True, []).
C5_Witness ==
  /\ RulesDone
  /\ rules_args = [sql |-> Q_where, require |-> <<"where">>, forbid |-> <<"limit">>]
  /\ rules_ret.kind = "return"
  /\ rules_ret.passed
  /\ rules_ret.messages = <<>>

\* C6: the call never raises; with a name outside the vocabulary it returns
\* passed=False with the single internal-error message, which names the
\* unknown names, before has() is called at all, whatever the query is.
C6_UnknownNameFailsFast ==
  RulesDone =>
    /\ rules_ret.kind = "return"
    /\ ~AllRecognized =>
         /\ ~rules_ret.passed
         /\ rules_ret.probes = <<>>
         /\ Len(rules_ret.messages) = 1
         /\ rules_ret.messages[1].text = "Internal error: unknown process rule(s): "
         /\ name_set(rules_ret.messages[1].detail)
              = (name_set(rules_args.require) \cup name_set(rules_args.forbid)) \ Vocabulary

\* C6 witness: an unknown name after a known one whose construct the
\* query misses.
C6_Witness ==
  /\ RulesDone
  /\ Len(rules_args.require) = 2
  /\ rules_args.require[1] \in Vocabulary
  /\ rules_args.require[2] \notin Vocabulary
  /\ ~has(rules_args.require[1], NormalizedQuery)

(***************************************************************************)
(* Properties of the validator: the column and row-count checks            *)
(***************************************************************************)

\* The verdict of the validator configured by c on the table of the state.
verdict_under(c) ==
  LET v == validator(c, Q_plain, val_df, NONE)
  IN  [passed |-> v.passed, messages |-> v.messages]

\* C11: with exact_cols set, required_cols non-empty and no required
\* column missing, the validator fails with the column message when the
\* column set of the table is not the set of required_cols (the table has
\* an extra column), and goes on to the later checks when the sets are
\* equal, in whatever order the columns come; with required_cols empty the
\* exact_cols flag makes no check and changes no verdict.
C11_ExactColumnSet ==
  ValidatorDone =>
    /\ (cfg.exact_cols /\ cfg.required_cols # <<>> /\ ~FailsRequired) =>
         /\ \E n \in 1..Len(val_checks) : val_checks[n] = "exact_cols"
         /\ IF column_set(val_df.columns) = column_set(cfg.required_cols)
            THEN val_checks[Len(val_checks)] # "exact_cols"
            ELSE /\ ~val_ret.passed
                 /\ val_ret.messages = <<MSG_WRONG_COLUMNS>>
                 /\ val_checks[Len(val_checks)] = "exact_cols"
                 /\ column_set(cfg.required_cols) \subseteq column_set(val_df.columns)
                 /\ column_set(val_df.columns) \ column_set(cfg.required_cols) # {}
    /\ cfg.required_cols = <<>> =>
         /\ \A n \in 1..Len(val_checks) : val_checks[n] # "exact_cols"
         /\ verdict_under([cfg EXCEPT !.exact_cols = ~cfg.exact_cols]) = val_ret

\* C11 witness: exact_cols is set and the table holds the required columns
\* in another order than required_cols, with the expected row count and
\* digest: the verdict passes.
C11_Witness ==
  /\ ValidatorDone
  /\ cfg.exact_cols
  /\ cfg.required_cols = <<col_a, col_b>>
  /\ val_df.columns = <<col_b, col_a>>
  /\ cfg.expected_rows = Some(Len(val_df.rows))
  /\ val_ret.passed

\* C12: when the column checks pass and expected_rows is set to another
\* number than the row count, the verdict is passed=False with the one
\* generic row-count message, which carries no count and is the same under
\* either value of hide_row_count; with expected_rows None no row-count
\* check is made.
C12_RowCountMessage ==
  ValidatorDone =>
    /\ (~FailsRequired /\ ~FailsExact /\ FailsRows) =>
         /\ ~val_ret.passed
         /\ val_ret.messages = <<MSG_WRONG_ROWS>>
         /\ val_ret.messages[1].detail = <<>>
         /\ val_checks[Len(val_checks)] = "expected_rows"
         /\ verdict_under([cfg EXCEPT !.hide_row_count = ~cfg.hide_row_count]) = val_ret
    /\ cfg.expected_rows = NONE =>
         \A n \in 1..Len(val_checks) : val_checks[n] # "expected_rows"

\* C12 witness: a validator with hide_row_count=False met a table with the
\* required columns, the expected digest and another row count than
\* expected_rows.
C12_Witness ==
  /\ ValidatorDone
  /\ ~cfg.hide_row_count
  /\ cfg.required_cols # <<>>
  /\ ~FailsRequired /\ ~FailsExact
  /\ FailsRows
  /\ ~FailsDigest

\* The required columns the table does not have, in required_cols order.
MissingInOrder(required_cols) ==
  SelectSeq(required_cols, LAMBDA c : c \notin column_set(val_df.columns))

\* C13: for a table that misses required columns, a validator with
\* hide_missing_cols=True returns the one generic column message, the same
\* for every required_cols the table fails; with hide_missing_cols=False
\* the message lists the missing names, comma-separated, in required_cols
\* order.
C13_MissingColumnsHidden ==
  (ValidatorDone /\ FailsRequired) =>
    /\ ~val_ret.passed
    /\ Len(val_ret.messages) = 1
    /\ cfg.hide_missing_cols =>
         /\ val_ret.messages = <<MSG_WRONG_COLUMNS>>
         /\ val_ret.messages[1].detail = <<>>
         /\ \A rc \in RequiredCols :
              MissingInOrder(rc) # <<>> =>
                verdict_under([cfg EXCEPT !.required_cols = rc]) = val_ret
    /\ ~cfg.hide_missing_cols =>
         /\ val_ret.messages[1].text = "Missing column(s): "
         /\ val_ret.messages[1].detail
              = join(<<",", " ">>, MissingInOrder(cfg.required_cols))

\* C13 witness: hiding is on and two required columns are missing.
C13_Witness ==
  /\ ValidatorDone
  /\ cfg.hide_missing_cols
  /\ cfg.required_cols = <<col_d, col_c>>
  /\ Len(MissingInOrder(cfg.required_cols)) = 2
  /\ ~val_ret.passed

(***************************************************************************)
(* Frame: the table of the caller                                          *)
(***************************************************************************)

\* C15: after df_fingerprint, and after a validator call (which calls
\* df_fingerprint when no earlier check returned), the table the caller
\* passed has the columns, the column order, the rows, the row order and
\* the cells it had before the call.
C15_InputUnchanged ==
  /\ FingerprintDone => heap[1] = fp_args.df
  /\ ValidatorDone => heap[1] = val_df

\* C15 witness: the validator went as far as the digest, and the table
\* that df_fingerprint serialized differs from the table of the caller.
C15_Witness ==
  /\ ValidatorDone
  /\ val_checks[Len(val_checks)] = "expected_hash"
  /\ Len(heap) > 1
  /\ heap[Len(heap)] # heap[1]

(***************************************************************************)
(* Properties of calls that run concurrently                               *)
(***************************************************************************)

\* What call a returns when it runs alone.
alone(a) ==
  IF a.kind = "validator"
  THEN LET v == validator(a.cfg, a.sql, a.df, NONE)
       IN  [kind |-> "return", passed |-> v.passed, messages |-> v.messages]
  ELSE LET u == CHOOSE o \in orderings(unknown_rules(a.require, a.forbid)) : TRUE
           r == check_process_rules(a.sql, a.require, a.forbid, u)
       IN  IF r.kind = "raise"
           THEN [kind |-> "raise", exc |-> r.exc]
           ELSE [kind |-> "return", passed |-> r.passed, messages |-> r.messages]

\* What call i returned, without the record of where the other call was.
returned(i) ==
  IF conc_ret[i].kind = "raise"
  THEN [kind |-> "raise", exc |-> conc_ret[i].exc]
  ELSE [kind |-> "return", passed |-> conc_ret[i].passed,
        messages |-> conc_ret[i].messages]

\* C14: of two calls (validators built from their own configurations on
\* their own tables, or check_process_rules calls) whose steps interleave
\* in any way, each returns what it returns when it runs alone.
C14_SameVerdictAsAlone ==
  pc = "concurrent" =>
    \A i \in 1..2 :
      conc_pc[i] = "done" => returned(i) = alone(conc_args[i])

\* C14 witness: two validators have returned, the first with the missing
\* column message while the second was between its first and its last
\* line, the second with a passing verdict.
C14_Witness ==
  /\ pc = "concurrent"
  /\ conc_pc[1] = "done" /\ conc_pc[2] = "done"
  /\ conc_args[1].kind = "validator" /\ conc_args[2].kind = "validator"
  /\ conc_ret[1].other_at \in {"L82", "L87", "L88"}
  /\ ~conc_ret[1].passed
  /\ conc_ret[1].messages[1].text = "Missing column(s): "
  /\ conc_ret[2].passed

(***************************************************************************)
(* Properties of check_process_rules: detection and messages               *)
(***************************************************************************)

\* The text each construct is detected by.
Literal ==
  [t \in Vocabulary |->
     CASE t = "where"    -> <<"w", "h", "e", "r", "e">>
       [] t = "having"   -> <<"h", "a", "v", "i", "n", "g">>
       [] t = "distinct" -> <<"d", "i", "s", "t", "i", "n", "c", "t">>
       [] t = "limit"    -> <<"l", "i", "m", "i", "t">>
       [] t = "group_by" -> <<"g", "r", "o", "u", "p", " ", "b", "y">>
       [] t = "order_by" -> <<"o", "r", "d", "e", "r", " ", "b", "y">>
       [] t = "subquery" -> <<"(", "s", "e", "l", "e", "c", "t">>
       [] t = "join"     -> <<" ", "j", "o", "i", "n", " ">>]

\* Construct t occurs in a query: its text is a substring of nq, the
\* lowercased, whitespace-collapsed, trimmed query.
Detected(t, nq) == contains(nq, Literal[t])

\* The query with the case of every letter changed, and in capitals.
swapcase(s) ==
  [i \in 1..Len(s) |->
     IF ord[s[i]] >= 65 /\ ord[s[i]] <= 90 THEN chr(ord[s[i]] + 32)
     ELSE IF ord[s[i]] >= 97 /\ ord[s[i]] <= 122 THEN chr(ord[s[i]] - 32)
     ELSE s[i]]
upper(s) ==
  [i \in 1..Len(s) |->
     IF ord[s[i]] >= 97 /\ ord[s[i]] <= 122 THEN chr(ord[s[i]] - 32) ELSE s[i]]

RECURSIVE respace(_, _)
\* The text with every whitespace character replaced by the run ws.
respace(s, ws) ==
  IF s = <<>> THEN <<>>
  ELSE (IF isspace(Head(s)) THEN ws ELSE <<Head(s)>>) \o respace(Tail(s), ws)

\* Queries that differ from the query of the call in letter case or in
\* what their whitespace runs are made of.
QueryVariants ==
  { swapcase(rules_args.sql),
    respace(rules_args.sql, <<"\t", "\n">>),
    respace(upper(rules_args.sql), <<" ">>) }

\* C16: a required construct passes, and a forbidden one fails, exactly
\* when its text (the bare word, "group by", "order by", "(select", and
\* " join " with a space on both sides) is a substring of the lowercased,
\* whitespace-collapsed, trimmed query; the result of the call is the same
\* for the query in another letter case or with other non-empty whitespace
\* runs; "rejoined" is not a join.
C16_SubstringDetection ==
  (RulesDone /\ AllRecognized) =>
    /\ rules_ret.kind = "return"
    /\ LET nq == NormalizedQuery
       IN  rules_ret.passed
             <=> /\ \A i \in 1..Len(rules_args.require) : Detected(rules_args.require[i], nq)
                 /\ \A i \in 1..Len(rules_args.forbid) : ~Detected(rules_args.forbid[i], nq)
    /\ \A q \in QueryVariants :
         LET r == check_process_rules(q, rules_args.require, rules_args.forbid, <<>>)
         IN  /\ r.kind = "return"
             /\ r.passed = rules_ret.passed
             /\ r.messages = rules_ret.messages
    /\ (rules_args.sql = Q_rejoined /\ rules_args.require = <<"join">>) => ~rules_ret.passed

\* C16 witness: a query that has JOIN in capitals between a newline-tab run
\* and a space passed the rule that requires a join.
C16_Witness ==
  /\ RulesDone
  /\ rules_args.sql = Q_join
  /\ rules_args.require = <<"join">>
  /\ rules_args.forbid = <<>>
  /\ rules_ret.passed
\* A query that has the construct, for each construct.
QueryWith ==
  [t \in Vocabulary |->
     CASE t = "where"    -> Q_where
       [] t = "join"     -> Q_join
       [] t = "group_by" -> Q_group_having
       [] t = "having"   -> Q_group_having
       [] t = "distinct" -> Q_distinct_order_limit
       [] t = "order_by" -> Q_distinct_order_limit
       [] t = "limit"    -> Q_distinct_order_limit
       [] t = "subquery" -> Q_subquery]

\* C19: the message of a violation is that of the construct reported,
\* whichever list names it: when the call reports a required construct
\* that is missing, the call that forbids that construct on a query that
\* has it fails with the same message, and when it reports a forbidden
\* construct that is present, the call that requires that construct on the
\* empty query fails with the same message (so a forbidden WHERE is
\* answered by the text that asks for a WHERE clause).
C19_MessageByNameAlone ==
  (RulesDone /\ AllRecognized) =>
    LET missing == MissingRequired
        present == PresentForbidden
    IN  (missing # {} \/ present # {}) =>
          LET t     == IF missing # {}
                       THEN rules_args.require[Least(missing)]
                       ELSE rules_args.forbid[Least(present)]
              other == IF missing # {}
                       THEN check_process_rules(QueryWith[t], <<>>, <<t>>, <<>>)
                       ELSE check_process_rules(Q_empty, <<t>>, <<>>, <<>>)
          IN  /\ ~rules_ret.passed
              /\ Len(rules_ret.messages) = 1
              /\ other.kind = "return"
              /\ ~other.passed
              /\ other.messages = rules_ret.messages

\* C19 witness: a query with a WHERE clause failed the rule that forbids
\* one, and got the text that asks for one.
C19_Witness ==
  /\ RulesDone
  /\ rules_args.require = <<>>
  /\ rules_args.forbid = <<"where">>
  /\ ~rules_ret.passed
  /\ rules_ret.messages[1].text = "Use a WHERE clause."

(***************************************************************************)
(* Properties of df_fingerprint: whitespace and column order               *)
(***************************************************************************)

\* Texts with the words of s and other whitespace between and around them.
TextVariants(s) ==
  { respace(s, <<"\t", "\n">>),
    <<" ">> \o s \o <<"\n">>,
    <<"\t">> \o respace(s, <<" ", " ">>) }
  \cup { t \in {S_x_y, S_x__y, S_y} : split(t) = split(s) }

\* C17: with normalize_whitespace=True, a table that differs from the one
\* fingerprinted in the whitespace runs or the leading or trailing
\* whitespace of one text cell has the digest the call returned and the
\* same canonical table, so also the same sorted row order.
C17_WhitespaceInsensitive ==
  (FingerprintDone /\ fp_args.normalize_whitespace) =>
    \A r \in 1..Len(fp_args.df.rows), j \in 1..Len(fp_args.df.columns) :
      fp_args.df.rows[r][j].t = "str" =>
        \A w \in TextVariants(fp_args.df.rows[r][j].s) :
          LET other == replace_cell(fp_args.df, r, j, StrCell(w))
          IN  /\ digest_of(other) = fp_ret.h
              /\ canonical_of(other) = canonical_of(fp_args.df)

\* C17 witness: a call with normalize_whitespace=True and sort_rows=True
\* on two rows of text, one with leading whitespace and a tab-space run,
\* that the sort has reordered.
C17_Witness ==
  /\ FingerprintDone
  /\ fp_args.normalize_whitespace
  /\ fp_args.sort_rows
  /\ fp_args.df = DataFrame(<<col_t>>, <<<<StrCell(S_y)>>, <<StrCell(S_x__y)>>>>)

\* The table with its columns, names and cells together, in the order
\* q[1], q[2], ...
columns_in_order(df, q) ==
  DataFrame([j \in 1..Len(df.columns) |-> df.columns[q[j]]],
            [r \in 1..Len(df.rows) |->
               [j \in 1..Len(df.columns) |-> df.rows[r][q[j]]]])

\* C18: with sort_cols=True the columns of the canonical table are in
\* ascending order of their names and every permutation of the columns of
\* the table has the digest the call returned; with sort_cols=False the
\* canonical table keeps the column order given, and a table with the
\* columns in another order has another digest.
C18_ColumnOrder ==
  FingerprintDone =>
    LET n    == Len(fp_args.df.columns)
        cols == canonical_of(fp_args.df).columns
    IN  /\ fp_args.sort_cols =>
             /\ \A j \in 1..n, k \in 1..n : j < k => str_lt(cols[j], cols[k])
             /\ \A q \in Permutations(1..n) :
                  digest_of(columns_in_order(fp_args.df, q)) = fp_ret.h
        /\ ~fp_args.sort_cols =>
             /\ cols = fp_args.df.columns
             /\ \A q \in Permutations(1..n) :
                  columns_in_order(fp_args.df, q) # fp_args.df =>
                    digest_of(columns_in_order(fp_args.df, q)) # fp_ret.h

\* C18 witness: a call with sort_cols=True on a table that has its two
\* columns in descending order of their names, and rows.
C18_Witness ==
  /\ FingerprintDone
  /\ fp_args.sort_cols
  /\ fp_args.df.columns = <<col_b, col_a>>
  /\ Len(fp_args.df.rows) >= 1

====
